---- MODULE Spec2Model ----
(***************************************************************************)
(* Model of skootrs-lib/src/service/repo.rs: LocalRepoService::initialize  *)
(* (with GithubRepoHandler::create) run by concurrent callers, and         *)
(* LocalRepoService::clone_local (with GithubRepoHandler::clone_local).    *)
(* Strings are TLA+ strings; format! is string concatenation.              *)
(* Utc::now() (line 110) is left out of the event: no property below       *)
(* reads the timestamp.                                                    *)
(***************************************************************************)
EXTENDS Integers, Sequences, FiniteSets, TLC

\* ---------------------------------------------------------------- bounds
\* Number of concurrent invocations of initialize.
MaxCalls == 2
\* Number of clone_local invocations recorded.
MaxClones == 2

Calls == 1..MaxCalls

\* ---------------------------------------------------------------- inputs
Names == {"", "skootrs"}
OwnerNames == {"kusaridev"}
Descriptions == {"d"}
Paths == {"/tmp/x", "rel"}

\* enum GithubUser { User(String), Organization(String) }
GithubUser == [tag : {"User", "Organization"}, name : OwnerNames]

\* struct GithubRepoParams { name, description, organization }
GithubRepoParams == [name : Names, description : Descriptions, organization : GithubUser]

\* What the provider can answer to a creation request: a 2xx JSON body, an
\* error status (422 stands for every 4xx / 5xx: the code sees them all as the
\* same Err), a transport failure, a 2xx body that is not JSON.
Outcomes == {"ok", "http_422", "transport", "deserialize"}

\* What Command::output() can yield: Err (not spawned), or Ok with a status.
ProcessOutputs == {[spawned |-> FALSE, status |-> -1],
                   [spawned |-> TRUE, status |-> 0],
                   [spawned |-> TRUE, status |-> 128]}

\* ---------------------------------------------------------------- state
VARIABLES
    pc,               \* position of each initialize call
    params,           \* the GithubRepoParams each call was given
    token,            \* what std::env::var("GITHUB_TOKEN") gave each call
    STATIC_INSTANCE,  \* octocrab's process-wide client: 0 = default, c = built by call c
    handler_client,   \* GithubRepoHandler.client of each call (0 before it is
                      \* built and after it is dropped at the return)
    requests,         \* requests each call sent to the provider
    response,         \* the provider's answer to each call
    remote,           \* repositories that exist at the provider
    rce,              \* the RepositoryCreatedEvent each call built
    emitted,          \* events each call wrote to the log stream
    result,           \* what each initialize call returned
    clones            \* completed clone_local calls

vars == <<pc, params, token, STATIC_INSTANCE, handler_client, requests,
          response, remote, rce, emitted, result, clones>>

initVars == <<pc, params, token, STATIC_INSTANCE, handler_client, requests,
              response, remote, rce, emitted, result>>

\* ---------------------------------------------------------------- values
NoParams == [name |-> "", description |-> "", organization |-> [tag |-> "None", name |-> ""]]
NoResult == [kind |-> "None"]
Panic == [kind |-> "Panic"]
Err(e) == [kind |-> "Err", error |-> e]
Ok(v) == [kind |-> "Ok", value |-> v]
NoEvent == [kind |-> "None"]

\* GithubUser::get_name
get_name(organization) == organization.name

\* GithubRepoParams::full_url / InitializedGithubRepo::full_url
full_url(name, organization) ==
    "https://github.com/" \o get_name(organization) \o "/" \o name

\* The generated newtypes' FromStr: the string itself when it has the declared
\* format, an error otherwise.
IdFromStr(s) == IF Len(s) >= 1 THEN Ok(s) ELSE Err("validation")
NameFromStr(s) == IF Len(s) >= 1 THEN Ok(s) ELSE Err("validation")
UrlFromStr(s) == IF Len(s) >= 1 THEN Ok(s) ELSE Err("validation")

Digits == {"0", "1", "2", "3", "4", "5", "6", "7", "8", "9"}
IsSemver(s) ==
    /\ Len(s) = 5
    /\ SubSeq(s, 1, 1) \in Digits /\ SubSeq(s, 2, 2) = "."
    /\ SubSeq(s, 3, 3) \in Digits /\ SubSeq(s, 4, 4) = "."
    /\ SubSeq(s, 5, 5) \in Digits
VersionFromStr(s) == IF IsSemver(s) THEN Ok(s) ELSE Err("validation")

\* struct NewGithubRepoParams, as built at the top of create
NewGithubRepoParams(github_params) ==
    [name |-> github_params.name,
     description |-> github_params.description,
     private |-> FALSE,
     has_issues |-> TRUE,
     has_projects |-> TRUE,
     has_wiki |-> TRUE]

\* The route of the creation request: the match on github_params.organization
EndpointByName(github_params) ==
    IF github_params.name = "skootrs"
    THEN "/orgs/" \o github_params.organization.name \o "/repos"
    ELSE "/user/repos"
Endpoint(github_params) ==
    IF github_params.organization.tag = "Organization"
    THEN "/orgs/" \o github_params.organization.name \o "/repos"
    ELSE "/user/repos"

\* The client the request goes through: octocrab::instance() in the User arm,
\* self.client in the Organization arm.
RequestClient(c) ==
    IF params[c].organization.tag = "User" THEN STATIC_INSTANCE ELSE handler_client[c]

\* format!("{}/{}", organization.get_name(), name) of the context id
ContextIdStr(github_params) ==
    get_name(github_params.organization) \o "/" \o github_params.name

\* format!("{}/{}", organization.get_name(), name) of the subject id
SubjectIdStrNameOnly(github_params) == github_params.name
SubjectIdStr(github_params) ==
    get_name(github_params.organization) \o "/" \o github_params.name

\* The RepositoryCreatedEvent literal of create: every from_str(..)? in it
\* either yields its field or makes create return the error.
RepositoryCreatedEvent(github_params) ==
    LET cid == IdFromStr(ContextIdStr(github_params))
        ver == VersionFromStr("0.3.0")
        nm  == NameFromStr(github_params.name)
        url == UrlFromStr(full_url(github_params.name, github_params.organization))
        sid == IdFromStr(SubjectIdStr(github_params))
    IN  IF \E f \in {cid, ver, nm, url, sid} : f.kind = "Err"
        THEN Err("validation")
        ELSE Ok([kind |-> "Event",
                 context |-> [id |-> cid.value,
                              source |-> "skootrs.github.creator",
                              type_ |-> "dev.cdevents.repository.created.0.1.1",
                              version |-> ver.value],
                 subject |-> [id |-> sid.value,
                              source |-> "skootrs.github.creator",
                              type_ |-> "repository",
                              content |-> [name |-> nm.value,
                                           owner |-> get_name(github_params.organization),
                                           url |-> url.value,
                                           view_url |-> full_url(github_params.name,
                                                                 github_params.organization)]]])

\* struct InitializedGithubRepo, as returned by create
InitializedGithubRepo(github_params) ==
    [name |-> github_params.name, organization |-> github_params.organization]

\* format!("{}/{}", path, initialized_github_repo.name)
SourcePathNoSeparator(path, name) == path \o name
SourcePath(path, name) == path \o "/" \o name

\* ---------------------------------------------------------------- Init
Init ==
    /\ pc = [c \in Calls |-> "idle"]
    /\ params = [c \in Calls |-> NoParams]
    /\ token = [c \in Calls |-> "unread"]
    /\ STATIC_INSTANCE = 0
    /\ handler_client = [c \in Calls |-> 0]
    /\ requests = [c \in Calls |-> <<>>]
    /\ response = [c \in Calls |-> "none"]
    /\ remote = {}
    /\ rce = [c \in Calls |-> NoEvent]
    /\ emitted = [c \in Calls |-> <<>>]
    /\ result = [c \in Calls |-> NoResult]
    /\ clones = <<>>

\* ---------------------------------------------------------------- initialize
\* Lines 52-58: the call is entered, the token is read (expect) and the
\* client is built (build()?).
initialize_anonymous(c) ==
    /\ pc[c] = "idle"
    /\ \E p \in GithubRepoParams, env \in {"unset", "set"}, built \in BOOLEAN :
        /\ params' = [params EXCEPT ![c] = p]
        /\ token' = [token EXCEPT ![c] = env]
        /\ IF ~built
           THEN /\ pc' = [pc EXCEPT ![c] = "done"]
                /\ result' = [result EXCEPT ![c] = Err("build")]
           ELSE /\ pc' = [pc EXCEPT ![c] = "line59"]
                /\ UNCHANGED result
    /\ UNCHANGED <<STATIC_INSTANCE, handler_client, requests, response, remote,
                   rce, emitted, clones>>
initialize(c) ==
    /\ pc[c] = "idle"
    /\ \E p \in GithubRepoParams, env \in {"unset", "set"}, built \in BOOLEAN :
        /\ params' = [params EXCEPT ![c] = p]
        /\ token' = [token EXCEPT ![c] = env]
        /\ IF env = "unset"
           THEN /\ pc' = [pc EXCEPT ![c] = "done"]
                /\ result' = [result EXCEPT ![c] = Panic]
           ELSE IF ~built
           THEN /\ pc' = [pc EXCEPT ![c] = "done"]
                /\ result' = [result EXCEPT ![c] = Err("build")]
           ELSE /\ pc' = [pc EXCEPT ![c] = "line59"]
                /\ UNCHANGED result
    /\ UNCHANGED <<STATIC_INSTANCE, handler_client, requests, response, remote,
                   rce, emitted, clones>>

\* Line 59: octocrab::initialise(o) stores the call's client in the global.
initialise(c) ==
    /\ pc[c] = "line59"
    /\ STATIC_INSTANCE' = c
    /\ pc' = [pc EXCEPT ![c] = "line63"]
    /\ UNCHANGED <<params, token, handler_client, requests, response, remote,
                   rce, emitted, result, clones>>

\* Lines 62-64: GithubRepoHandler { client: octocrab::instance() }.
new_handler(c) ==
    /\ pc[c] = "line63"
    /\ handler_client' = [handler_client EXCEPT ![c] = STATIC_INSTANCE]
    /\ pc' = [pc EXCEPT ![c] = "line96"]
    /\ UNCHANGED <<params, token, STATIC_INSTANCE, requests, response, remote,
                   rce, emitted, result, clones>>

\* Lines 87-103: create builds the body and posts it to the chosen route.
post_and_emit(c) ==
    /\ pc[c] = "line96"
    /\ requests' = [requests EXCEPT ![c] = Append(@,
            [method |-> "POST",
             route |-> Endpoint(params[c]),
             body |-> NewGithubRepoParams(params[c]),
             client |-> RequestClient(c)])]
    /\ emitted' = [emitted EXCEPT ![c] =
            IF RepositoryCreatedEvent(params[c]).kind = "Ok"
            THEN Append(@, RepositoryCreatedEvent(params[c]).value) ELSE @]
    /\ pc' = [pc EXCEPT ![c] = "await"]
    /\ UNCHANGED <<params, token, STATIC_INSTANCE, handler_client, response,
                   remote, rce, result, clones>>
post(c) ==
    /\ pc[c] = "line96"
    /\ requests' = [requests EXCEPT ![c] = Append(@,
            [method |-> "POST",
             route |-> Endpoint(params[c]),
             body |-> NewGithubRepoParams(params[c]),
             client |-> RequestClient(c)])]
    /\ pc' = [pc EXCEPT ![c] = "await"]
    /\ UNCHANGED <<params, token, STATIC_INSTANCE, handler_client, response,
                   remote, rce, emitted, result, clones>>

\* The provider's side of an answer: a 2xx answer means the repository exists.
Created(c, out) ==
    IF out \in {"ok", "deserialize"}
    THEN remote \cup {[route |-> requests[c][Len(requests[c])].route,
                       name |-> requests[c][Len(requests[c])].body.name]}
    ELSE remote

\* Lines 97/101, .await?: the answer arrives; anything but a deserialized
\* 2xx body makes create return the error (and the handler is dropped).
await_post_swallow(c) ==
    /\ pc[c] = "await"
    /\ \E out \in Outcomes :
        /\ response' = [response EXCEPT ![c] = out]
        /\ remote' = Created(c, out)
        /\ pc' = [pc EXCEPT ![c] = "line106"]
        /\ UNCHANGED <<result, handler_client>>
    /\ UNCHANGED <<params, token, STATIC_INSTANCE, requests, rce, emitted, clones>>
await_post_retry(c) ==
    /\ pc[c] = "await"
    /\ \E out \in Outcomes :
        /\ response' = [response EXCEPT ![c] = out]
        /\ remote' = Created(c, out)
        /\ IF out = "ok"
           THEN /\ pc' = [pc EXCEPT ![c] = "line106"]
                /\ UNCHANGED <<result, handler_client>>
           ELSE IF Len(requests[c]) < 2
           THEN /\ pc' = [pc EXCEPT ![c] = "line96"]
                /\ UNCHANGED <<result, handler_client>>
           ELSE /\ pc' = [pc EXCEPT ![c] = "done"]
                /\ result' = [result EXCEPT ![c] = Err("api")]
                /\ handler_client' = [handler_client EXCEPT ![c] = 0]
    /\ UNCHANGED <<params, token, STATIC_INSTANCE, requests, rce, emitted, clones>>
await_post(c) ==
    /\ pc[c] = "await"
    /\ \E out \in Outcomes :
        /\ response' = [response EXCEPT ![c] = out]
        /\ remote' = Created(c, out)
        /\ IF out = "ok"
           THEN /\ pc' = [pc EXCEPT ![c] = "line106"]
                /\ UNCHANGED <<result, handler_client>>
           ELSE /\ pc' = [pc EXCEPT ![c] = "done"]
                /\ result' = [result EXCEPT ![c] = Err("api")]
                /\ handler_client' = [handler_client EXCEPT ![c] = 0]
    /\ UNCHANGED <<params, token, STATIC_INSTANCE, requests, rce, emitted, clones>>

\* Lines 105-127: the event is built; a failed from_str returns the error.
build_event_compensating(c) ==
    /\ pc[c] = "line106"
    /\ LET e == RepositoryCreatedEvent(params[c])
       IN  IF e.kind = "Ok"
           THEN /\ rce' = [rce EXCEPT ![c] = e.value]
                /\ pc' = [pc EXCEPT ![c] = "line130"]
                /\ UNCHANGED <<result, requests, remote, handler_client>>
           ELSE /\ pc' = [pc EXCEPT ![c] = "done"]
                /\ result' = [result EXCEPT ![c] = e]
                /\ handler_client' = [handler_client EXCEPT ![c] = 0]
                /\ requests' = [requests EXCEPT ![c] = Append(@,
                        [method |-> "DELETE",
                         route |-> "/repos/" \o ContextIdStr(params[c]),
                         body |-> NewGithubRepoParams(params[c]),
                         client |-> RequestClient(c)])]
                /\ remote' = remote \ {[route |-> Endpoint(params[c]),
                                        name |-> params[c].name]}
                /\ UNCHANGED rce
    /\ UNCHANGED <<params, token, STATIC_INSTANCE, response, emitted, clones>>
build_event(c) ==
    /\ pc[c] = "line106"
    /\ LET e == RepositoryCreatedEvent(params[c])
       IN  IF e.kind = "Ok"
           THEN /\ rce' = [rce EXCEPT ![c] = e.value]
                /\ pc' = [pc EXCEPT ![c] = "line130"]
                /\ UNCHANGED <<result, handler_client>>
           ELSE /\ pc' = [pc EXCEPT ![c] = "done"]
                /\ result' = [result EXCEPT ![c] = e]
                /\ handler_client' = [handler_client EXCEPT ![c] = 0]
                /\ UNCHANGED rce
    /\ UNCHANGED <<params, token, STATIC_INSTANCE, requests, response, remote,
                   emitted, clones>>

\* Lines 130-135 and 65: the event is written to the log stream and
\* Ok(InitializedRepo::Github(..)) is returned.
log_and_return(c) ==
    /\ pc[c] = "line130"
    /\ emitted' = [emitted EXCEPT ![c] = Append(@, rce[c])]
    /\ result' = [result EXCEPT ![c] = Ok(InitializedGithubRepo(params[c]))]
    /\ handler_client' = [handler_client EXCEPT ![c] = 0]
    /\ pc' = [pc EXCEPT ![c] = "done"]
    /\ UNCHANGED <<params, token, STATIC_INSTANCE, requests, response, remote,
                   rce, clones>>

Next ==
    \E c \in Calls :
        \/ initialize(c)
        \/ initialise(c)
        \/ new_handler(c)
        \/ post(c)
        \/ await_post(c)
        \/ build_event(c)
        \/ log_and_return(c)

Spec == Init /\ [][Next]_vars

\* ---------------------------------------------------------------- clone_local
\* What clone_local returns for one outcome of Command::output(): `?` returns
\* the spawn error; the Output of a spawned process is bound to _output and
\* not looked at.
CloneResult(repo, path, out) ==
    IF ~out.spawned
    THEN Err("clone")
    ELSE Ok([path |-> SourcePath(path, repo.name)])

\* LocalRepoService::clone_local -> GithubRepoHandler::clone_local
clone_local(repo, path) ==
    /\ Len(clones) < MaxClones
    /\ \E out \in ProcessOutputs :
        clones' = Append(clones,
            [repo |-> repo,
             path |-> path,
             program |-> "git",
             args |-> <<"clone", full_url(repo.name, repo.organization)>>,
             current_dir |-> path,
             output |-> out,
             result |-> CloneResult(repo, path, out)])
    /\ UNCHANGED initVars

NextClone ==
    \E p \in GithubRepoParams, path \in Paths :
        clone_local(InitializedGithubRepo(p), path)

SpecClone == Init /\ [][NextClone]_vars

\* ---------------------------------------------------------------- properties
Sent(c) == {requests[c][i] : i \in 1..Len(requests[c])}
Logged(c) == {emitted[c][i] : i \in 1..Len(emitted[c])}
Cloned == {clones[i] : i \in 1..Len(clones)}
Failed(c) == pc[c] = "done" /\ result[c].kind \in {"Err", "Panic"}

\* C1: every creation request goes to "/orgs/{o}/repos" when the owner is
\* Organization(o) and to "/user/repos" when the owner is User(_), whatever
\* the repository name is.
C1_EndpointFollowsOwnerTag ==
    \A c \in Calls : \A r \in Sent(c) :
        /\ params[c].organization.tag = "Organization"
              => r.route = "/orgs/" \o params[c].organization.name \o "/repos"
        /\ params[c].organization.tag = "User" => r.route = "/user/repos"

C1_Witness ==
    \E c, d \in Calls :
        /\ Sent(c) # {} /\ Sent(d) # {}
        /\ params[c].organization.tag = "Organization"
        /\ params[d].organization.tag = "User"
        /\ params[c].name = params[d].name
        /\ params[c].organization.name = params[d].organization.name

\* C2: clone_local returns Ok only when the clone subprocess was spawned and
\* exited with status zero.
C2_CloneFailureIsError ==
    \A k \in Cloned :
        k.result.kind = "Ok" => (k.output.spawned /\ k.output.status = 0)

\* C3: a successful clone_local(repo, path) with non-empty path and name
\* returns exactly "{path}/{repo.name}", and equal inputs give equal paths.
C3_SourcePathIsPathSlashName ==
    /\ \A k \in Cloned :
          (k.result.kind = "Ok" /\ k.path # "" /\ k.repo.name # "")
              => /\ k.result.value.path = k.path \o "/" \o k.repo.name
                 /\ (k.path = "/tmp/x" /\ k.repo.name = "skootrs")
                       => k.result.value.path = "/tmp/x/skootrs"
    /\ \A k, m \in Cloned :
          (k.result.kind = "Ok" /\ m.result.kind = "Ok"
              /\ k.repo = m.repo /\ k.path = m.path)
              => k.result.value.path = m.result.value.path

C3_Witness ==
    \E i, j \in 1..Len(clones) :
        /\ i < j
        /\ clones[i].repo = clones[j].repo /\ clones[i].path = clones[j].path
        /\ clones[i].repo.name # "" /\ clones[i].path # ""
        /\ clones[i].result.kind = "Ok" /\ clones[j].result.kind = "Ok"
        /\ clones[i].output # clones[j].output

\* C4: a call holds Ok(InitializedRepo) only if, before the step that
\* produced it, its creation request had been sent and answered with
\* success; the value carries the name and the owner of the params sent.
C4_OkOnlyAfterConfirmedCreation ==
    [][\A c \in Calls :
          result'[c].kind = "Ok"
              => /\ Len(requests[c]) >= 1
                 /\ response[c] = "ok"
                 /\ result'[c].value.name = params[c].name
                 /\ result'[c].value.name = requests[c][1].body.name
                 /\ result'[c].value.organization = params[c].organization]_vars

C4_Witness ==
    \E c, d \in Calls :
        /\ result[c].kind = "Ok"
        /\ result[c].value.organization.tag = "User"
        /\ result[d].kind = "Err" /\ response[d] = "http_422"

\* C5: a call that finds GITHUB_TOKEN absent fails having sent no request,
\* built and emitted no event, and returned no InitializedRepo.
C5_NoTokenNoRequest ==
    \A c \in Calls :
        token[c] = "unset"
            => /\ Failed(c)
               /\ Len(requests[c]) = 0
               /\ response[c] = "none"
               /\ rce[c] = NoEvent
               /\ emitted[c] = <<>>

C5_Witness ==
    \E c, d \in Calls :
        /\ token[c] = "unset" /\ pc[c] = "done"
        /\ token[d] = "set" /\ Len(requests[d]) = 1

\* C6: a call whose creation request got a non-success answer returns an
\* error and emits no event; an event is built or emitted only once the
\* answer was a success.
C6_EventOnlyAfterSuccess ==
    \A c \in Calls :
        /\ response[c] \notin {"none", "ok"}
              => /\ pc[c] = "done" /\ result[c].kind = "Err"
                 /\ rce[c] = NoEvent /\ emitted[c] = <<>>
        /\ (rce[c] # NoEvent \/ emitted[c] # <<>>) => response[c] = "ok"

C6_Witness ==
    \E c, d \in Calls :
        /\ response[c] = "http_422" /\ result[c].kind = "Err"
        /\ Len(emitted[d]) = 1 /\ response[d] = "ok"

\* C7: no call issues its request through, or holds in its handler, a
\* client that another call stored.
C7_NoCrossCallState ==
    \A c \in Calls :
        /\ \A r \in Sent(c) : r.client = c
        /\ pc[c] \in {"line96", "await", "line106", "line130"}
              => handler_client[c] = c

\* C8: the context id and the subject id of every event built are both
\* "{owner-name}/{repo-name}".
C8_EventIdsAreOwnerSlashName ==
    \A c \in Calls : \A e \in Logged(c) \cup ({rce[c]} \ {NoEvent}) :
        /\ e.context.id = params[c].organization.name \o "/" \o params[c].name
        /\ e.subject.id = params[c].organization.name \o "/" \o params[c].name
        /\ e.context.id = e.subject.id

C8_Witness ==
    \E c, d \in Calls :
        /\ Len(emitted[c]) = 1 /\ params[c].organization.tag = "User"
        /\ emitted[c][1].subject.id = "kusaridev/skootrs"
        /\ rce[d] # NoEvent /\ params[d].organization.tag = "Organization"

\* C9: when a field of the event fails validation after the creation
\* succeeded, the call returns an error, emits no event, and the repository
\* stays created; no call ever sends anything but its creation request.
C9_ValidationFailureLeavesRemote ==
    \A c \in Calls :
        /\ (response[c] = "ok" /\ RepositoryCreatedEvent(params[c]).kind = "Err"
               /\ pc[c] \notin {"line106"})
              => /\ pc[c] = "done" /\ result[c].kind = "Err"
                 /\ rce[c] = NoEvent /\ emitted[c] = <<>>
        /\ response[c] \in {"ok", "deserialize"}
              => [route |-> requests[c][1].route, name |-> params[c].name] \in remote
        /\ \A r \in Sent(c) : r.method = "POST"

C9_Witness ==
    \E c \in Calls :
        /\ response[c] = "ok" /\ pc[c] = "done"
        /\ result[c] = Err("validation")
        /\ [route |-> "/orgs/kusaridev/repos", name |-> ""] \in remote

\* C10: a call sends at most one creation request; a non-success answer ends
\* the call with an error, without another request.
C10_AtMostOneRequest ==
    \A c \in Calls :
        /\ Len(requests[c]) <= 1
        /\ response[c] \notin {"none", "ok"}
              => /\ Len(requests[c]) = 1
                 /\ pc[c] = "done" /\ result[c].kind = "Err"

C10_Witness ==
    \E c, d \in Calls :
        /\ c # d
        /\ response[c] = "http_422" /\ pc[c] = "done"
        /\ response[d] = "transport" /\ pc[d] = "done"
        /\ Len(requests[c]) = 1 /\ Len(requests[d]) = 1

====
